---- MODULE Spec2Model ----
(***************************************************************************)
(* Model of src/watermarker.py: the two engine entry points               *)
(* add_text_watermark and add_image_watermark, the helpers find_font and   *)
(* calculate_position, and the Pillow pixel operations they call           *)
(* (alpha_composite, paste with a mask, putalpha/Brightness, resize,       *)
(* ImageDraw.text), modelled by their 8-bit integer arithmetic.            *)
(*                                                                         *)
(* Floats: scale_factor and opacity are rationals <<num, den>>.  On the    *)
(* value sets used here int(w * s) and int(w * (h / w0)) computed in       *)
(* doubles equal the exact floor of the rational product.                  *)
(***************************************************************************)
EXTENDS Integers, Sequences, FiniteSets, TLC

VARIABLES
    entry,                \* which entry point main() called: "text", "image", "geom"
    pc,                   \* position inside the entry point
    result,               \* "running", "True", "False" (returned) or "raised"
    base_file,            \* environment: the file at base_image_path
    wm_file,              \* environment: the file at watermark_image_path
    fonts_ok,             \* environment: the font sources that can be loaded
    font_size,            \* text path locals
    font_color_rgb,
    font_input,
    font,
    tried,
    opacity,              \* <<num, den>>
    position_choice,
    scale_factor_str,     \* the scale factor as entered at the prompt
    scale_factor,         \* <<num, den>>
    base_image,           \* images: [w, h, px], px[y * w + x + 1] = <<r, g, b, a>>
    watermark_image_orig,
    watermark_image,
    wm_is_orig,           \* watermark_image is the same object as watermark_image_orig
    wm_width,             \* wm_width, wm_height (image path) / text_width, text_height
    wm_height,
    layer,                \* txt_layer (text path) / temp_layer (image path)
    placements,           \* the destinations the watermark was drawn at, in order
    boxes,                \* the region of the canvas each of them wrote
    watermarked_image,
    output,               \* the file at output_path: NoImage until an RGB image is saved
    geom,                 \* calculate_position applied on its own: arguments and result
    dir_files,            \* organise_files: names of the files in directory_path
    folders,              \* organise_files: the category folders, [kind, files]
    pending,              \* organise_files: items of os.listdir still to be visited
    organised_count,
    skipped_count

vars == <<entry, pc, result, base_file, wm_file, fonts_ok, font_size, font_color_rgb,
          font_input, font, tried, opacity, position_choice, scale_factor_str,
          scale_factor, base_image, watermark_image_orig, watermark_image, wm_is_orig,
          wm_width, wm_height,
          layer, placements, boxes, watermarked_image, output, geom,
          dir_files, folders, pending, organised_count, skipped_count>>

\* the state of organise_files
organiserVars == <<dir_files, folders, pending, organised_count, skipped_count>>

\* the state of the watermarking calls, entry and pc aside
watermarkVars == <<result, base_file, wm_file, fonts_ok, font_size, font_color_rgb,
                   font_input, font, tried, opacity, position_choice, scale_factor_str,
                   scale_factor, base_image, watermark_image_orig, watermark_image,
                   wm_is_orig, wm_width, wm_height, layer, placements, boxes,
                   watermarked_image, output, geom>>

----------------------------------------------------------------------------
(* Bounds of the model *)

\* base images are 1..MaxSmallBase pixels, or just past the padding / tile spacing
MaxSmallBase == 2
\* source watermark images are 1..MaxWmDim pixels wide and high
MaxWmDim == 2
\* the measured text box is 1..MaxTextDim pixels wide and high
MaxTextDim == 2
\* calculate_position on its own: sizes 0..MaxGeomDim, padding 0..MaxGeomPad
MaxGeomDim == 3
MaxGeomPad == 2

(* Program constants *)
DefaultPadding == 10
TileSpacing == 20

NoImage == [w |-> 0, h |-> 0, px |-> <<>>]   \* px[y * w + x + 1] is pixel (x, y)
NoPos == <<0, 0>>
NoGeom == [bw |-> 0, bh |-> 0, ww |-> 0, wh |-> 0, pos |-> "", pad |-> 0,
           called |-> FALSE, xy |-> NoPos]

----------------------------------------------------------------------------
(* Rationals standing for the floats *)

Num(q) == q[1]
Den(q) == q[2]
RatLt(q, r) == Num(q) * Den(r) < Num(r) * Den(q)
RatEq(q, r) == Num(q) * Den(r) = Num(r) * Den(q)
RatLe(q, r) == RatLt(q, r) \/ RatEq(q, r)
One == <<1, 1>>
Zero == <<0, 1>>
\* int(n * q) for n >= 0, q >= 0
IntMul(n, q) == (n * Num(q)) \div Den(q)

----------------------------------------------------------------------------
(* Geometry *)

PositionOptionsText == <<"Top Left", "Top Right", "Bottom Left", "Bottom Right", "Center">>
PositionOptionsImage == <<"Top Left", "Top Right", "Bottom Left", "Bottom Right", "Center",
                          "Tile">>

\* calculate_position with the Top Right and Bottom Left results exchanged
\* (faulty variant)
calculate_position_swapped(base_width, base_height, wm_width_, wm_height_, choice, padding) ==
    CASE choice = "Top Left" -> <<padding, padding>>
      [] choice = "Top Right" -> <<padding, base_height - wm_height_ - padding>>
      [] choice = "Bottom Left" -> <<base_width - wm_width_ - padding, padding>>
      [] choice = "Bottom Right" ->
            <<base_width - wm_width_ - padding, base_height - wm_height_ - padding>>
      [] choice = "Center" ->
            <<(base_width - wm_width_) \div 2, (base_height - wm_height_) \div 2>>
      [] OTHER -> <<base_width - wm_width_ - padding, base_height - wm_height_ - padding>>

calculate_position(base_width, base_height, wm_width_, wm_height_, choice, padding) ==
    CASE choice = "Top Left" -> <<padding, padding>>
      [] choice = "Top Right" -> <<base_width - wm_width_ - padding, padding>>
      [] choice = "Bottom Left" -> <<padding, base_height - wm_height_ - padding>>
      [] choice = "Bottom Right" ->
            <<base_width - wm_width_ - padding, base_height - wm_height_ - padding>>
      [] choice = "Center" ->
            <<(base_width - wm_width_) \div 2, (base_height - wm_height_) \div 2>>
      [] OTHER -> <<base_width - wm_width_ - padding, base_height - wm_height_ - padding>>

----------------------------------------------------------------------------
(* Pixels: <<r, g, b, a>>, 8 bits a channel *)

Transparent == <<0, 0, 0, 0>>
TxtBackground == <<255, 255, 255, 0>>

\* Pillow's rounded division by 255 and its blend of two channel values
DIV255(a) == LET t == a + 128 IN ((t \div 256) + t) \div 256
BLEND(mask, in1, in2) == DIV255(in1 * (255 - mask) + in2 * mask)
SHIFTFORDIV255(a) == ((a \div 256) + a) \div 256

\* alpha_composite with the two images taken the other way round (faulty variant)
AlphaCompositePixelSwapped(dst, src) ==
    IF dst[4] = 0 THEN src
    ELSE LET PrecisionOne == 128
             blend == src[4] * (255 - dst[4])
             outa255 == dst[4] * 255 + blend
             coef1 == (dst[4] * 255 * 255 * PrecisionOne) \div outa255
             coef2 == 255 * PrecisionOne - coef1
             ch(i) == SHIFTFORDIV255(dst[i] * coef1 + src[i] * coef2
                                     + 128 * PrecisionOne) \div PrecisionOne
         IN <<ch(1), ch(2), ch(3), SHIFTFORDIV255(outa255 + 128)>>

\* Image.alpha_composite, one pixel: src over dst
AlphaCompositePixel(dst, src) ==
    IF src[4] = 0 THEN dst
    ELSE LET PrecisionOne == 128     \* 1 << PRECISION_BITS
             blend == dst[4] * (255 - src[4])
             outa255 == src[4] * 255 + blend
             coef1 == (src[4] * 255 * 255 * PrecisionOne) \div outa255
             coef2 == 255 * PrecisionOne - coef1
             ch(i) == SHIFTFORDIV255(src[i] * coef1 + dst[i] * coef2
                                     + 128 * PrecisionOne) \div PrecisionOne
         IN <<ch(1), ch(2), ch(3), SHIFTFORDIV255(outa255 + 128)>>

\* paste(im, box, mask) with an RGBA mask, one pixel: every channel, alpha
\* included, is blended with the mask's alpha
PasteMaskPixel(out, in, mask) ==
    <<BLEND(mask[4], out[1], in[1]), BLEND(mask[4], out[2], in[2]),
      BLEND(mask[4], out[3], in[3]), BLEND(mask[4], out[4], in[4])>>

\* ImageDraw.text on an RGBA image, one pixel with glyph coverage c
DrawTextPixel(out, ink, c) ==
    LET cm == IF c # 0 THEN 255 - (255 - c) * (1 - ((255 - out[4]) \div 255)) ELSE c
    IN <<BLEND(cm, out[1], ink[1]), BLEND(cm, out[2], ink[2]),
         BLEND(cm, out[3], ink[3]), BLEND(c, out[4], ink[4])>>

\* enhance() leaving the alpha as it is at opacity 0 (faulty variant)
EnhanceAlphaSkipZero(a, q) == IF RatEq(q, Zero) THEN a ELSE IntMul(a, q)

\* ImageEnhance.Brightness(alpha).enhance(opacity): blend with black, truncated
EnhanceAlpha(a, q) ==
    IF RatEq(q, Zero) THEN 0 ELSE IF RatEq(q, One) THEN a ELSE IntMul(a, q)

----------------------------------------------------------------------------
(* Images *)

Idx(img, x, y) == y * img.w + x + 1
PixelAt(img, x, y) == img.px[Idx(img, x, y)]
XOf(img, i) == (i - 1) % img.w
YOf(img, i) == (i - 1) \div img.w
Max(a, b) == IF a >= b THEN a ELSE b
Min(a, b) == IF a <= b THEN a ELSE b
EmptyBox == [x0 |-> 0, y0 |-> 0, xsize |-> 0, ysize |-> 0]

\* the region written without clipping: the whole box at dest (faulty variant)
ClipBoxNone(dest, w, h, cw, ch) ==
    [x0 |-> dest[1], y0 |-> dest[2], xsize |-> w, ysize |-> h]

\* The region of a cw x ch canvas that paste, the in-place alpha_composite
\* and ImageDraw.text write when an image of size w x h goes to dest: the
\* box is cut at the four edges, and nothing is written when nothing is left
ClipBox(dest, w, h, cw, ch) ==
    LET dx0 == Max(dest[1], 0)
        dy0 == Max(dest[2], 0)
        xsize == Min(dest[1] + w, cw) - dx0
        ysize == Min(dest[2] + h, ch) - dy0
    IN IF xsize <= 0 \/ ysize <= 0 THEN EmptyBox
       ELSE [x0 |-> dx0, y0 |-> dy0, xsize |-> xsize, ysize |-> ysize]
InBox(b, x, y) ==
    /\ x >= b.x0 /\ x < b.x0 + b.xsize
    /\ y >= b.y0 /\ y < b.y0 + b.ysize

NewImage(w, h, color) == [w |-> w, h |-> h, px |-> [i \in 1..(w * h) |-> color]]

\* The pixels a decoded file holds, by position
BasePixelAt(x, y) ==
    <<(9 * x + 5 * y + 17) % 256, (3 * x + 100) % 256, (7 * y + 50) % 256,
      IF (x + y) % 3 = 0 THEN 200 ELSE 255>>
WmPixelAt(kind, x, y) ==
    <<(200 + 11 * x) % 256, (31 * y + 60) % 256, 240,
      IF kind = "opaque" THEN 255
      ELSE CASE (x + y) % 3 = 0 -> 128
             [] (x + y) % 3 = 1 -> 255
             [] OTHER -> 0>>
\* glyph coverage of the rendered text, by position inside its box
Coverage(i, j) ==
    CASE (i + j) % 3 = 0 -> 255
      [] (i + j) % 3 = 1 -> 128
      [] OTHER -> 0

\* Image.open(path).convert("RGBA")
DecodeBase(f) ==
    [w |-> f.w, h |-> f.h,
     px |-> [i \in 1..(f.w * f.h) |-> BasePixelAt((i - 1) % f.w, (i - 1) \div f.w)]]
DecodeWm(f) ==
    [w |-> f.w, h |-> f.h,
     px |-> [i \in 1..(f.w * f.h) |-> WmPixelAt(f.kind, (i - 1) % f.w, (i - 1) \div f.w)]]

\* resize((w, h), LANCZOS): every target pixel is taken from the source pixel
\* its position falls on (the filter's weights are not modelled)
Resize(src, w, h) ==
    [w |-> w, h |-> h,
     px |-> [i \in 1..(w * h) |->
                PixelAt(src, (((i - 1) % w) * src.w) \div w,
                             (((i - 1) \div w) * src.h) \div h)]]

\* split()[3], Brightness.enhance(opacity), putalpha
PutScaledAlpha(img, q) ==
    [img EXCEPT !.px = [i \in 1..(img.w * img.h) |->
        <<img.px[i][1], img.px[i][2], img.px[i][3], EnhanceAlpha(img.px[i][4], q)>>]]

\* temp_layer.paste(wm, (x, y), wm): clipped to the canvas
PasteWithMask(canvas, wm, dest) ==
    [canvas EXCEPT !.px = [i \in 1..(canvas.w * canvas.h) |->
        LET x == XOf(canvas, i)
            y == YOf(canvas, i)
        IN IF InBox(ClipBox(dest, wm.w, wm.h, canvas.w, canvas.h), x, y)
           THEN LET s == PixelAt(wm, x - dest[1], y - dest[2])
                IN PasteMaskPixel(canvas.px[i], s, s)
           ELSE canvas.px[i]]]

\* Image.alpha_composite(im1, im2): two images of the same size
AlphaComposite(im1, im2) ==
    [im1 EXCEPT !.px = [i \in 1..(im1.w * im1.h) |->
        AlphaCompositePixel(im1.px[i], im2.px[i])]]

\* im.alpha_composite(wm, dest=(x, y)) in place: the box of the canvas under
\* the watermark is composited and pasted back, clipped to the canvas
AlphaCompositeAt(canvas, wm, dest) ==
    [canvas EXCEPT !.px = [i \in 1..(canvas.w * canvas.h) |->
        LET x == XOf(canvas, i)
            y == YOf(canvas, i)
        IN IF InBox(ClipBox(dest, wm.w, wm.h, canvas.w, canvas.h), x, y)
           THEN AlphaCompositePixel(canvas.px[i], PixelAt(wm, x - dest[1], y - dest[2]))
           ELSE canvas.px[i]]]

\* draw.text((x, y), text, font, fill): the glyph mask of the measured box,
\* clipped to the canvas
DrawText(canvas, dest, tw, th, ink) ==
    [canvas EXCEPT !.px = [i \in 1..(canvas.w * canvas.h) |->
        LET x == XOf(canvas, i)
            y == YOf(canvas, i)
        IN IF InBox(ClipBox(dest, tw, th, canvas.w, canvas.h), x, y)
           THEN DrawTextPixel(canvas.px[i], ink, Coverage(x - dest[1], y - dest[2]))
           ELSE canvas.px[i]]]

\* convert("RGB"): the alpha channel is dropped
ConvertRGB(img) ==
    [img EXCEPT !.px = [i \in 1..(img.w * img.h) |->
        <<img.px[i][1], img.px[i][2], img.px[i][3]>>]]

\* the tile loop's destinations in loop order: rows of y, x inside
RECURSIVE TileRow(_, _, _, _)
TileRow(x, y, stop, step) ==
    IF x >= stop THEN <<>> ELSE <<(<<x, y>>)>> \o TileRow(x + step, y, stop, step)
RECURSIVE TileOrigins(_, _, _, _, _)
TileOrigins(y, bw, bh, stepx, stepy) ==
    IF y >= bh THEN <<>>
    ELSE TileRow(0, y, bw, stepx) \o TileOrigins(y + stepy, bw, bh, stepx, stepy)

\* the tile loop: one in-place composite for each destination
RECURSIVE CompositeAll(_, _, _)
CompositeAll(canvas, wm, dests) ==
    IF dests = <<>> THEN canvas
    ELSE CompositeAll(AlphaCompositeAt(canvas, wm, Head(dests)), wm, Tail(dests))

----------------------------------------------------------------------------
(* Fonts *)

DEFAULT_FONT_PATHS ==
    <<"arial.ttf", "/usr/share/fonts/truetype/dejavu/DejaVuSans-Bold.ttf",
      "/System/Library/Fonts/Supplemental/Arial.ttf">>
UserFont == "user.ttf"              \* a font file the user names, which exists
MissingFont == "missing.ttf"        \* a path the user names, which does not exist
BuiltIn == "load_default"           \* ImageFont.load_default()
NoFont == "None"
FontSources == {UserFont, BuiltIn} \cup {DEFAULT_FONT_PATHS[i] : i \in 1..Len(DEFAULT_FONT_PATHS)}

\* the paths of the list tried up to the first that loads
RECURSIVE TryList(_, _)
TryList(paths, ok) ==
    IF paths = <<>> THEN <<>>
    ELSE IF Head(paths) \in ok THEN <<Head(paths)>>
    ELSE <<Head(paths)>> \o TryList(Tail(paths), ok)

\* find_font with the built-in font tried before the list (faulty variant)
find_font_builtin_first(font_name, ok) ==
    IF BuiltIn \in ok THEN [font |-> BuiltIn, tried |-> <<BuiltIn>>]
    ELSE LET l == TryList(DEFAULT_FONT_PATHS, ok)
         IN [font |-> IF l[Len(l)] \in ok THEN l[Len(l)] ELSE NoFont,
             tried |-> <<BuiltIn>> \o l]

\* find_font returning the built-in font object though it did not load (faulty variant)
find_font_never_none(font_name, ok) ==
    LET l == TryList(DEFAULT_FONT_PATHS, ok)
    IN IF l[Len(l)] \in ok THEN [font |-> l[Len(l)], tried |-> l]
       ELSE IF font_name \in ok
            THEN [font |-> font_name, tried |-> l \o <<font_name>>]
       ELSE [font |-> BuiltIn, tried |-> l \o <<font_name, BuiltIn>>]

\* find_font: the list in order, then font_name, then the built-in font;
\* returns the font and the sources it tried
find_font(font_name, ok) ==
    LET l == TryList(DEFAULT_FONT_PATHS, ok)
    IN IF l[Len(l)] \in ok THEN [font |-> l[Len(l)], tried |-> l]
       ELSE IF font_name \in ok
            THEN [font |-> font_name, tried |-> l \o <<font_name>>]
       ELSE IF BuiltIn \in ok
            THEN [font |-> BuiltIn, tried |-> l \o <<font_name, BuiltIn>>]
       ELSE [font |-> NoFont, tried |-> l \o <<font_name, BuiltIn>>]

\* lines 130-139: the font the text path ends with
ResolveFont(input, ok) ==
    IF input # "" /\ input # MissingFont
    THEN IF input \in ok
         THEN [font |-> input, tried |-> <<input>>]
         ELSE LET r == find_font("arial.ttf", ok)
              IN [font |-> r.font, tried |-> <<input>> \o r.tried]
    ELSE find_font("arial.ttf", ok)

----------------------------------------------------------------------------
(* Inputs *)

\* base widths: small ones, one just past the padding, one just past the tile
\* spacing; base heights: the smallest and the largest of them
BaseWidths == (1..MaxSmallBase) \cup {DefaultPadding + 2, TileSpacing + 3}
BaseHeights == {1, TileSpacing + 3}
BadFile == [w |-> 0, h |-> 0, kind |-> "unreadable"]
NoFile == [w |-> 0, h |-> 0, kind |-> "none"]
BaseFiles == {[w |-> w, h |-> h, kind |-> "image"] : w \in BaseWidths, h \in BaseHeights}
WmFiles == {[w |-> w, h |-> h, kind |-> k] :
               w \in 1..MaxWmDim, h \in {1, MaxWmDim}, k \in {"opaque", "alpha"}}

COLOR_CHOICES ==
    [White |-> <<255, 255, 255>>, Black |-> <<0, 0, 0>>, Red |-> <<255, 0, 0>>,
     Gray |-> <<128, 128, 128>>]
OpacityValues == {<<0, 1>>, <<1, 2>>, <<1, 1>>}
FontSizeInputs == {"50", "abc"}
ScaleInputs == {"0.2", "0.5", "1", "2", "0", "-1", "abc"}
\* float(scale_factor_str); "ValueError" when it does not parse
ParseFloat(str) ==
    CASE str = "0.2" -> [err |-> "", val |-> <<1, 5>>]
      [] str = "0.5" -> [err |-> "", val |-> <<1, 2>>]
      [] str = "1" -> [err |-> "", val |-> <<1, 1>>]
      [] str = "2" -> [err |-> "", val |-> <<2, 1>>]
      [] str = "0" -> [err |-> "", val |-> <<0, 1>>]
      [] str = "-1" -> [err |-> "", val |-> <<-1, 1>>]
      [] OTHER -> [err |-> "ValueError", val |-> <<0, 1>>]
\* int(str); "ValueError" when it does not parse
ParseInt(str) ==
    CASE str = "50" -> [err |-> "", val |-> 50]
      [] OTHER -> [err |-> "ValueError", val |-> 0]
DefaultScale == <<1, 5>>
\* lines 190-197 with 1.0 in place of a non-positive factor (faulty variant)
ScaleFactorOfOne(str) ==
    LET v == ParseFloat(str)
    IN IF v.err # "" THEN DefaultScale
       ELSE IF RatLe(v.val, Zero) THEN One
       ELSE v.val

\* lines 190-197
ScaleFactorOf(str) ==
    LET v == ParseFloat(str)
    IN IF v.err # "" THEN DefaultScale
       ELSE IF RatLe(v.val, Zero) THEN DefaultScale
       ELSE v.val

----------------------------------------------------------------------------
(* State *)

TypeOK ==
    /\ entry \in {"text", "image", "geom", "organise"}
    /\ result \in {"running", "True", "False", "raised"}
    /\ fonts_ok \subseteq FontSources

\* organise_files is not running
OrganiserIdle ==
    /\ dir_files = {}
    /\ folders = <<>>
    /\ pending = {}
    /\ organised_count = 0
    /\ skipped_count = 0

InitLocals ==
    /\ pc = "start"
    /\ result = "running"
    /\ font_size = 0
    /\ font_color_rgb = <<0, 0, 0>>
    /\ font_input = ""
    /\ font = NoFont
    /\ tried = <<>>
    /\ opacity = Zero
    /\ position_choice = ""
    /\ scale_factor_str = ""
    /\ scale_factor = Zero
    /\ base_image = NoImage
    /\ watermark_image_orig = NoImage
    /\ watermark_image = NoImage
    /\ wm_is_orig = FALSE
    /\ wm_width = 0
    /\ wm_height = 0
    /\ layer = NoImage
    /\ placements = <<>>
    /\ boxes = <<>>
    /\ watermarked_image = NoImage
    /\ output = NoImage
    /\ geom = NoGeom

\* main() has called add_text_watermark or add_image_watermark; the files
\* are those of the machine, on which no font file or only the built-in
\* font loads
Init ==
    /\ InitLocals
    /\ OrganiserIdle
    /\ \/ /\ entry = "text"
          /\ wm_file = NoFile
          /\ fonts_ok \in {{}, {BuiltIn}}
          /\ base_file \in BaseFiles \cup {BadFile}
       \/ /\ entry = "image"
          /\ fonts_ok = {}
          /\ base_file \in BaseFiles \cup {BadFile}
          /\ wm_file \in WmFiles \cup {BadFile}

Return(value) ==
    /\ pc' = "done"
    /\ result' = value

----------------------------------------------------------------------------
(* add_text_watermark *)

\* main() has called add_text_watermark on a machine with any set of fonts
InitFont ==
    /\ InitLocals
    /\ OrganiserIdle
    /\ entry = "text"
    /\ wm_file = NoFile
    /\ fonts_ok \in SUBSET FontSources
    /\ base_file = [w |-> DefaultPadding + 2, h |-> 1, kind |-> "image"]

\* lines 114-115: the text and the font size; int() is outside any try
TextPromptSize ==
    /\ entry = "text" /\ pc = "start"
    /\ \E str \in FontSizeInputs :
          LET v == ParseInt(str)
          IN IF v.err # ""
             THEN /\ Return("raised")
                  /\ UNCHANGED font_size
             ELSE /\ font_size' = v.val
                  /\ pc' = "t_style"
                  /\ UNCHANGED result
    /\ UNCHANGED organiserVars
    /\ UNCHANGED <<scale_factor_str,
                   entry, base_file, wm_file, fonts_ok, font_color_rgb, font_input, font,
                   tried, opacity, position_choice, scale_factor, base_image,
                   watermark_image_orig, watermark_image, wm_is_orig, wm_width, wm_height,
                   layer, placements, boxes, watermarked_image, output, geom>>

\* lines 118-128: colour, opacity, position
TextPromptStyle ==
    /\ entry = "text" /\ pc = "t_style"
    /\ \E c \in DOMAIN COLOR_CHOICES : font_color_rgb' = COLOR_CHOICES[c]
    /\ opacity' \in OpacityValues
    /\ \E i \in 1..Len(PositionOptionsText) : position_choice' = PositionOptionsText[i]
    /\ pc' = "t_font"
    /\ UNCHANGED organiserVars
    /\ UNCHANGED <<scale_factor_str,
                   entry, result, base_file, wm_file, fonts_ok, font_size, font_input, font,
                   tried, scale_factor, base_image, watermark_image_orig, watermark_image,
                   wm_is_orig, wm_width, wm_height, layer, placements, boxes,
                   watermarked_image, output, geom>>

\* lines 130-143: the font; without one the call returns False
TextResolveFont ==
    /\ entry = "text" /\ pc = "t_font"
    /\ font_input' \in {"", MissingFont, UserFont}
    /\ LET r == ResolveFont(font_input', fonts_ok)
       IN /\ font' = r.font
          /\ tried' = r.tried
          /\ IF r.font = NoFont
             THEN Return("False")
             ELSE pc' = "t_open" /\ UNCHANGED result
    /\ UNCHANGED organiserVars
    /\ UNCHANGED <<scale_factor_str,
                   entry, base_file, wm_file, fonts_ok, font_size, font_color_rgb, opacity,
                   position_choice, scale_factor, base_image, watermark_image_orig,
                   watermark_image, wm_is_orig, wm_width, wm_height, layer, placements,
                   boxes, watermarked_image, output, geom>>

\* lines 146-150: the base image and the transparent text layer
TextOpen ==
    /\ entry = "text" /\ pc = "t_open"
    /\ IF base_file.kind # "image"
       THEN /\ Return("False")
            /\ UNCHANGED <<base_image, layer>>
       ELSE /\ base_image' = DecodeBase(base_file)
            /\ layer' = NewImage(base_file.w, base_file.h, TxtBackground)
            /\ pc' = "t_draw"
            /\ UNCHANGED result
    /\ UNCHANGED organiserVars
    /\ UNCHANGED <<scale_factor_str,
                   entry, base_file, wm_file, fonts_ok, font_size, font_color_rgb,
                   font_input, font, tried, opacity, position_choice, scale_factor,
                   watermark_image_orig, watermark_image, wm_is_orig, wm_width, wm_height,
                   placements, boxes, watermarked_image, output, geom>>

\* line 124: font_alpha = int(opacity * 255)
FontAlpha(q) == IntMul(255, q)

\* lines 153-165: the text is measured, placed and drawn with the fill
\* colour, whose alpha is font_alpha
TextDraw ==
    /\ entry = "text" /\ pc = "t_draw"
    /\ \E tw \in 1..MaxTextDim, th \in 1..MaxTextDim :
          LET xy == calculate_position(base_image.w, base_image.h, tw, th,
                                       position_choice, DefaultPadding)
              ink == font_color_rgb \o <<FontAlpha(opacity)>>
          IN /\ wm_width' = tw
             /\ wm_height' = th
             /\ placements' = <<xy>>
             /\ boxes' = <<ClipBox(xy, tw, th, layer.w, layer.h)>>
             /\ layer' = DrawText(layer, xy, tw, th, ink)
    /\ pc' = "t_composite"
    /\ UNCHANGED organiserVars
    /\ UNCHANGED <<scale_factor_str,
                   entry, result, base_file, wm_file, fonts_ok, font_size, font_color_rgb,
                   font_input, font, tried, opacity, position_choice, scale_factor,
                   base_image, watermark_image_orig, watermark_image, wm_is_orig,
                   watermarked_image, output, geom>>

\* lines 168-176: composite, convert, save; a failing save returns False
TextComposite ==
    /\ entry = "text" /\ pc = "t_composite"
    /\ watermarked_image' = ConvertRGB(AlphaComposite(base_image, layer))
    /\ \E saved \in BOOLEAN :
          IF saved
          THEN output' = watermarked_image' /\ Return("True")
          ELSE UNCHANGED output /\ Return("False")
    /\ UNCHANGED organiserVars
    /\ UNCHANGED <<scale_factor_str,
                   entry, base_file, wm_file, fonts_ok, font_size, font_color_rgb,
                   font_input, font, tried, opacity, position_choice, scale_factor,
                   base_image, watermark_image_orig, watermark_image, wm_is_orig,
                   wm_width, wm_height, layer, placements, boxes, geom>>

----------------------------------------------------------------------------
(* add_image_watermark *)

\* lines 182-200: the watermark path (get_file_path returns only the path of
\* an existing file), opacity, scale factor and position
ImagePromptParams ==
    /\ entry = "image" /\ pc = "start"
    /\ opacity' \in OpacityValues
    /\ scale_factor_str' \in ScaleInputs
    /\ scale_factor' = ScaleFactorOf(scale_factor_str')
    /\ \E i \in 1..Len(PositionOptionsImage) : position_choice' = PositionOptionsImage[i]
    /\ pc' = "i_open"
    /\ UNCHANGED organiserVars
    /\ UNCHANGED <<entry, result, base_file, wm_file, fonts_ok, font_size, font_color_rgb,
                   font_input, font, tried, base_image, watermark_image_orig,
                   watermark_image, wm_is_orig, wm_width, wm_height, layer, placements,
                   boxes, watermarked_image, output, geom>>

\* lines 203-204: both images are decoded; a file that cannot be read raises
\* inside the try
ImageOpen ==
    /\ entry = "image" /\ pc = "i_open"
    /\ IF base_file.kind = "unreadable"
       THEN /\ Return("False")
            /\ UNCHANGED <<base_image, watermark_image_orig>>
       ELSE IF wm_file.kind = "unreadable"
       THEN /\ Return("False")
            /\ base_image' = DecodeBase(base_file)
            /\ UNCHANGED watermark_image_orig
       ELSE /\ base_image' = DecodeBase(base_file)
            /\ watermark_image_orig' = DecodeWm(wm_file)
            /\ pc' = "i_resize"
            /\ UNCHANGED result
    /\ UNCHANGED organiserVars
    /\ UNCHANGED <<scale_factor_str,
                   entry, base_file, wm_file, fonts_ok, font_size, font_color_rgb,
                   font_input, font, tried, opacity, position_choice, scale_factor,
                   watermark_image, wm_is_orig, wm_width, wm_height, layer, placements,
                   boxes, watermarked_image, output, geom>>

\* line 208 with the base width used for every scale factor (faulty variant)
TargetWidthOfBase(scale, base_w, orig_w) == IntMul(base_w, scale)

\* line 208: the target width
TargetWidth(scale, base_w, orig_w) ==
    IF RatLt(scale, One) THEN IntMul(base_w, scale) ELSE IntMul(orig_w, scale)

\* lines 209-210: int(wm_width * (orig.height / orig.width))
TargetHeight(width, orig_w, orig_h) == (width * orig_h) \div orig_w

\* lines 206-214: the watermark is resized unless the scale factor is 1.0;
\* resize raises for a size below 1 x 1
ImageResize ==
    /\ entry = "image" /\ pc = "i_resize"
    /\ IF ~RatEq(scale_factor, One)
       THEN LET w == TargetWidth(scale_factor, base_image.w, watermark_image_orig.w)
                h == TargetHeight(w, watermark_image_orig.w, watermark_image_orig.h)
            IN /\ wm_width' = w
               /\ wm_height' = h
               /\ IF w < 1 \/ h < 1
                  THEN /\ Return("False")
                       /\ UNCHANGED <<watermark_image, wm_is_orig>>
                  ELSE /\ watermark_image' = Resize(watermark_image_orig, w, h)
                       /\ wm_is_orig' = FALSE
                       /\ pc' = "i_opacity"
                       /\ UNCHANGED result
       ELSE /\ watermark_image' = watermark_image_orig
            /\ wm_is_orig' = TRUE
            /\ wm_width' = watermark_image_orig.w
            /\ wm_height' = watermark_image_orig.h
            /\ pc' = "i_opacity"
            /\ UNCHANGED result
    /\ UNCHANGED organiserVars
    /\ UNCHANGED <<scale_factor_str,
                   entry, base_file, wm_file, fonts_ok, font_size, font_color_rgb,
                   font_input, font, tried, opacity, position_choice, scale_factor,
                   base_image, watermark_image_orig, layer, placements, boxes,
                   watermarked_image, output, geom>>

\* lines 216-220: below opacity 1.0 the alpha channel is scaled and put back
\* into watermark_image, which is watermark_image_orig itself when no resize
\* took place
ApplyOpacity(img, q) == IF RatLt(q, One) THEN PutScaledAlpha(img, q) ELSE img

ImageOpacity ==
    /\ entry = "image" /\ pc = "i_opacity"
    /\ watermark_image' = ApplyOpacity(watermark_image, opacity)
    /\ watermark_image_orig' = IF wm_is_orig THEN watermark_image' ELSE watermark_image_orig
    /\ pc' = "i_place"
    /\ UNCHANGED organiserVars
    /\ UNCHANGED <<scale_factor_str,
                   entry, result, base_file, wm_file, fonts_ok, font_size, font_color_rgb,
                   font_input, font, tried, opacity, position_choice, scale_factor,
                   base_image, wm_is_orig, wm_width, wm_height, layer, placements, boxes,
                   watermarked_image, output, geom>>

\* the tile loop stepping by the watermark's size alone (faulty variant)
TileDestsNoGap(bw, bh, ww, wh) == TileOrigins(0, bw, bh, ww, wh)

\* lines 225-226: the destinations of the tile loop
TileDests(bw, bh, ww, wh) == TileOrigins(0, bw, bh, ww + TileSpacing, wh + TileSpacing)

\* lines 222-227: a copy of the base image, the watermark composited in place
\* at every destination of the loop
ImageTile ==
    /\ entry = "image" /\ pc = "i_place"
    /\ position_choice = "Tile"
    /\ LET dests == TileDests(base_image.w, base_image.h, wm_width, wm_height)
       IN /\ placements' = dests
          /\ boxes' = [i \in 1..Len(dests) |->
                          ClipBox(dests[i], watermark_image.w, watermark_image.h,
                                  base_image.w, base_image.h)]
          /\ watermarked_image' = CompositeAll(base_image, watermark_image, dests)
    /\ pc' = "i_save"
    /\ UNCHANGED organiserVars
    /\ UNCHANGED <<scale_factor_str,
                   entry, result, base_file, wm_file, fonts_ok, font_size, font_color_rgb,
                   font_input, font, tried, opacity, position_choice, scale_factor,
                   base_image, watermark_image_orig, watermark_image, wm_is_orig, wm_width,
                   wm_height, layer, output, geom>>

\* lines 228-236: the watermark is pasted, with itself as the mask, on a
\* transparent layer of the base's size, and the layer composited on the base
ImageSingle ==
    /\ entry = "image" /\ pc = "i_place"
    /\ position_choice # "Tile"
    /\ LET xy == calculate_position(base_image.w, base_image.h, wm_width, wm_height,
                                    position_choice, DefaultPadding)
           temp_layer == PasteWithMask(NewImage(base_image.w, base_image.h, Transparent),
                                       watermark_image, xy)
       IN /\ placements' = <<xy>>
          /\ boxes' = <<ClipBox(xy, watermark_image.w, watermark_image.h,
                                base_image.w, base_image.h)>>
          /\ layer' = temp_layer
          /\ watermarked_image' = AlphaComposite(base_image, temp_layer)
    /\ pc' = "i_save"
    /\ UNCHANGED organiserVars
    /\ UNCHANGED <<scale_factor_str,
                   entry, result, base_file, wm_file, fonts_ok, font_size, font_color_rgb,
                   font_input, font, tried, opacity, position_choice, scale_factor,
                   base_image, watermark_image_orig, watermark_image, wm_is_orig, wm_width,
                   wm_height, output, geom>>

\* lines 238-247: convert, save; a failing save returns False
ImageSave ==
    /\ entry = "image" /\ pc = "i_save"
    /\ watermarked_image' = ConvertRGB(watermarked_image)
    /\ \E saved \in BOOLEAN :
          IF saved
          THEN output' = watermarked_image' /\ Return("True")
          ELSE UNCHANGED output /\ Return("False")
    /\ UNCHANGED organiserVars
    /\ UNCHANGED <<scale_factor_str,
                   entry, base_file, wm_file, fonts_ok, font_size, font_color_rgb,
                   font_input, font, tried, opacity, position_choice, scale_factor,
                   base_image, watermark_image_orig, watermark_image, wm_is_orig,
                   wm_width, wm_height, layer, placements, boxes, geom>>

----------------------------------------------------------------------------
(* calculate_position on its own *)

GeomPositions == {PositionOptionsImage[i] : i \in 1..Len(PositionOptionsImage)} \cup {""}

\* sizes: small ones and those of the 100 x 100 / 20 x 20 example
GeomDims == (0..MaxGeomDim) \cup {20, 100}
GeomPaddings == (0..MaxGeomPad) \cup {DefaultPadding}

InitGeom ==
    /\ OrganiserIdle
    /\ pc = "start"
    /\ result = "running"
    /\ entry = "geom"
    /\ base_file = NoFile
    /\ wm_file = NoFile
    /\ fonts_ok = {}
    /\ font_size = 0
    /\ font_color_rgb = <<0, 0, 0>>
    /\ font_input = ""
    /\ font = NoFont
    /\ tried = <<>>
    /\ opacity = Zero
    /\ position_choice = ""
    /\ scale_factor_str = ""
    /\ scale_factor = Zero
    /\ base_image = NoImage
    /\ watermark_image_orig = NoImage
    /\ watermark_image = NoImage
    /\ wm_is_orig = FALSE
    /\ wm_width = 0
    /\ wm_height = 0
    /\ layer = NoImage
    /\ placements = <<>>
    /\ boxes = <<>>
    /\ watermarked_image = NoImage
    /\ output = NoImage
    /\ \E bw \in GeomDims, bh \in GeomDims, ww \in GeomDims, wh \in GeomDims,
          p \in GeomPositions, pad \in GeomPaddings :
          geom = [bw |-> bw, bh |-> bh, ww |-> ww, wh |-> wh, pos |-> p, pad |-> pad,
                  called |-> FALSE, xy |-> NoPos]

\* the call, padding passed or left to its default of 10
CallCalculatePosition ==
    /\ entry = "geom" /\ pc = "start"
    /\ geom' = [geom EXCEPT !.called = TRUE,
                            !.xy = calculate_position(geom.bw, geom.bh, geom.ww, geom.wh,
                                                      geom.pos, geom.pad)]
    /\ pc' = "done"
    /\ UNCHANGED organiserVars
    /\ UNCHANGED <<scale_factor_str,
                   entry, result, base_file, wm_file, fonts_ok, font_size, font_color_rgb,
                   font_input, font, tried, opacity, position_choice, scale_factor,
                   base_image, watermark_image_orig, watermark_image, wm_is_orig, wm_width,
                   wm_height, layer, placements, boxes, watermarked_image, output>>

----------------------------------------------------------------------------
(* Specifications *)

NextText ==
    \/ TextPromptSize
    \/ TextPromptStyle
    \/ TextResolveFont
    \/ TextOpen
    \/ TextDraw
    \/ TextComposite

SpecFont == InitFont /\ [][NextText]_vars

Next ==
    \/ NextText
    \/ ImagePromptParams
    \/ ImageOpen
    \/ ImageResize
    \/ ImageOpacity
    \/ ImageTile
    \/ ImageSingle
    \/ ImageSave

Spec == Init /\ [][Next]_vars

NextGeom == CallCalculatePosition

SpecGeom == InitGeom /\ [][NextGeom]_vars

----------------------------------------------------------------------------
(* organise_files (fileorganiser.py) *)

\* most files in the directory, and the highest numbered name already in a
\* category folder
MaxDirFiles == 2
MaxSuffix == 2

\* in dictionary order
FILE_CATEGORIES == <<
    [name |-> "Images",
     extensions |-> {".jpg", ".jpeg", ".png", ".gif", ".bmp", ".tiff", ".webp", ".svg",
                     ".heic"}],
    [name |-> "Documents",
     extensions |-> {".pdf", ".doc", ".docx", ".txt", ".rtf", ".odt", ".xls", ".xlsx",
                     ".ppt", ".pptx", ".csv"}],
    [name |-> "Videos",
     extensions |-> {".mp4", ".mov", ".avi", ".mkv", ".wmv", ".flv", ".webm"}],
    [name |-> "Audio", extensions |-> {".mp3", ".wav", ".aac", ".ogg", ".flac", ".m4a"}],
    [name |-> "Archives", extensions |-> {".zip", ".rar", ".tar", ".gz", ".7z"}],
    [name |-> "Executables", extensions |-> {".exe", ".msi", ".bat", ".sh"}],
    [name |-> "Scripts",
     extensions |-> {".py", ".js", ".html", ".css", ".php", ".java", ".c", ".cpp"}],
    [name |-> "Presentations", extensions |-> {".ppt", ".pptx", ".key", ".odp"}],
    [name |-> "Spreadsheets", extensions |-> {".xls", ".xlsx", ".ods", ".csv"}],
    [name |-> "TextFiles", extensions |-> {".txt", ".md", ".log"}],
    [name |-> "Others", extensions |-> {}] >>

CategoryNames == {FILE_CATEGORIES[i].name : i \in 1..Len(FILE_CATEGORIES)}

\* A file name is base, the numbers appended to it with "_", and extension:
\* [base |-> "a", sfx |-> <<1>>, ext |-> ".jpg"] is "a_1.jpg". os.path.splitext
\* splits it into "a_1" and ".jpg".
FileName(base, sfx, ext) == [base |-> base, sfx |-> sfx, ext |-> ext]

\* str.lower on an extension
Lower(ext) ==
    CASE ext = ".JPG" -> ".jpg"
      [] ext = ".PPT" -> ".ppt"
      [] OTHER -> ext

\* lines 68-69
FileExtension(item_name) == Lower(item_name.ext)

\* lines 77-81: the first category that lists the extension, "" for None
RECURSIVE FirstCategoryFrom(_, _)
FirstCategoryFrom(i, file_extension) ==
    IF i > Len(FILE_CATEGORIES) THEN ""
    ELSE IF file_extension \in FILE_CATEGORIES[i].extensions THEN FILE_CATEGORIES[i].name
    ELSE FirstCategoryFrom(i + 1, file_extension)

\* lines 77-85
TargetFolderName(file_extension) ==
    LET category == FirstCategoryFrom(1, file_extension)
    IN IF category = "" THEN "Others" ELSE category

\* A category folder is absent, a directory with files, or a plain file of
\* that name. Each file carries what it holds: where it was before the run.
NoFiles == [n \in {} |-> n]
Absent == [kind |-> "absent", files |-> NoFiles]
PlainFile == [kind |-> "file", files |-> NoFiles]
Directory(files) == [kind |-> "dir", files |-> files]
Holds(origin, name) == [origin |-> origin, name |-> name]
FolderWith(category, names) == Directory([n \in names |-> Holds(category, n)])
FilesIn(folder) == IF folder.kind = "dir" THEN DOMAIN folder.files ELSE {}

\* os.path.exists(os.path.join(target_folder_path, name))
Exists(folder, name) == name \in FilesIn(folder)

\* the directory entry of a category folder, or of a plain file of that name
CategoryEntry(category) == FileName(category, <<>>, "")
IsCategoryName(item_name) ==
    item_name.sfx = <<>> /\ item_name.ext = "" /\ item_name.base \in CategoryNames

\* line 108: f"{base}_{counter}{ext}"
WithCounter(item_name, counter) == [item_name EXCEPT !.sfx = Append(@, counter)]

\* lines 107-110
RECURSIVE ConflictLoop(_, _, _)
ConflictLoop(folder, item_name, counter) ==
    LET new_name == WithCounter(item_name, counter)
    IN IF Exists(folder, new_name) THEN ConflictLoop(folder, item_name, counter + 1)
       ELSE new_name

\* lines 100-112 without the check for a conflict (faulty variant)
DestinationNameUnchecked(folder, item_name) == item_name

\* lines 100-112: the name the file is moved to
DestinationName(folder, item_name) ==
    IF Exists(folder, item_name) THEN ConflictLoop(folder, item_name, 1) ELSE item_name

\* shutil.move into a directory: os.rename replaces whatever has the name
MoveInto(folder, name, holds) ==
    Directory([n \in FilesIn(folder) \cup {name} |->
                  IF n = name THEN holds ELSE folder.files[n]])

\* lines 90-92 when they succeed
AfterMakedirs(folder) == IF folder.kind = "absent" THEN Directory(NoFiles) ELSE folder

\* the files of the directory: an image, one with an upper-case extension,
\* one listed by two categories, one listed by none, one without extension,
\* and one named as a numbered copy
DirNames ==
    {FileName("a", <<>>, e) : e \in {".jpg", ".JPG", ".ppt", ".xyz", ""}}
        \cup {FileName("a", <<1>>, ".jpg")}

\* what the Images folder may already hold
ImagesNames ==
    {FileName("a", <<>>, ".jpg")} \cup {FileName("a", <<k>>, ".jpg") : k \in 1..MaxSuffix}

\* the directory before the run; the script has confirmed it is a directory
InitOrganise ==
    /\ InitLocals
    /\ entry = "organise"
    /\ base_file = NoFile
    /\ wm_file = NoFile
    /\ fonts_ok = {}
    /\ dir_files \in {S \in SUBSET DirNames : Cardinality(S) <= MaxDirFiles}
    /\ \E images \in {Absent} \cup {FolderWith("Images", S) : S \in SUBSET ImagesNames},
          documents \in {Absent, FolderWith("Documents", {FileName("a", <<>>, ".ppt")})},
          others \in {Absent, PlainFile} :
          folders = [c \in CategoryNames |->
                        CASE c = "Images" -> images
                          [] c = "Documents" -> documents
                          [] c = "Others" -> others
                          [] OTHER -> Absent]
    /\ pending = {}
    /\ organised_count = 0
    /\ skipped_count = 0

\* line 59: os.listdir, the files and the category entries that exist
OrganiseStart ==
    /\ entry = "organise" /\ pc = "start"
    /\ pending' = dir_files \cup
                     {CategoryEntry(c) : c \in {d \in CategoryNames : folders[d].kind # "absent"}}
    /\ pc' = "loop"
    /\ UNCHANGED <<entry, dir_files, folders, organised_count, skipped_count>>
    /\ UNCHANGED watermarkVars

\* os.path.isdir(item_path)
IsDir(item_name) == IsCategoryName(item_name) /\ folders[item_name.base].kind = "dir"

\* lines 63-65: directories and anything named as a category are passed over
SkipDirectory ==
    /\ entry = "organise" /\ pc = "loop"
    /\ \E item_name \in pending :
          /\ IsDir(item_name) \/ IsCategoryName(item_name)
          /\ pending' = pending \ {item_name}
    /\ UNCHANGED <<entry, pc, dir_files, folders, organised_count, skipped_count>>
    /\ UNCHANGED watermarkVars

\* lines 71-74
SkipNoExtension ==
    /\ entry = "organise" /\ pc = "loop"
    /\ \E item_name \in pending :
          /\ ~(IsDir(item_name) \/ IsCategoryName(item_name))
          /\ FileExtension(item_name) = ""
          /\ pending' = pending \ {item_name}
    /\ skipped_count' = skipped_count + 1
    /\ UNCHANGED <<entry, pc, dir_files, folders, organised_count>>
    /\ UNCHANGED watermarkVars

\* the item goes on to lines 76-120
ToBeMoved(item_name) ==
    /\ item_name \in pending
    /\ ~(IsDir(item_name) \/ IsCategoryName(item_name))
    /\ FileExtension(item_name) # ""

\* lines 90-97: os.makedirs raises OSError
MakedirsFails ==
    /\ entry = "organise" /\ pc = "loop"
    /\ \E item_name \in pending :
          /\ ToBeMoved(item_name)
          /\ folders[TargetFolderName(FileExtension(item_name))].kind = "absent"
          /\ pending' = pending \ {item_name}
    /\ skipped_count' = skipped_count + 1
    /\ UNCHANGED <<entry, pc, dir_files, folders, organised_count>>
    /\ UNCHANGED watermarkVars

\* lines 76-117: the folder is made if absent, a free name is found and the
\* file is moved
MoveFile ==
    /\ entry = "organise" /\ pc = "loop"
    /\ \E item_name \in pending :
          LET target_folder_name == TargetFolderName(FileExtension(item_name))
              folder == AfterMakedirs(folders[target_folder_name])
              destination == DestinationName(folder, item_name)
          IN /\ ToBeMoved(item_name)
             /\ folder.kind = "dir"
             /\ folders' = [folders EXCEPT ![target_folder_name] =
                               MoveInto(folder, destination, Holds("", item_name))]
             /\ dir_files' = dir_files \ {item_name}
             /\ pending' = pending \ {item_name}
    /\ organised_count' = organised_count + 1
    /\ UNCHANGED <<entry, pc, skipped_count>>
    /\ UNCHANGED watermarkVars

\* lines 114-120: shutil.move raises, as it always does when the category
\* name is taken by a plain file; the folder made at line 92 stays
MoveFails ==
    /\ entry = "organise" /\ pc = "loop"
    /\ \E item_name \in pending :
          LET target_folder_name == TargetFolderName(FileExtension(item_name))
          IN /\ ToBeMoved(item_name)
             /\ folders' = [folders EXCEPT ![target_folder_name] = AfterMakedirs(@)]
             /\ pending' = pending \ {item_name}
    /\ skipped_count' = skipped_count + 1
    /\ UNCHANGED <<entry, pc, dir_files, organised_count>>
    /\ UNCHANGED watermarkVars

\* lines 122-127: the listing is exhausted
OrganiseEnd ==
    /\ entry = "organise" /\ pc = "loop"
    /\ pending = {}
    /\ pc' = "done"
    /\ UNCHANGED <<entry, dir_files, folders, pending, organised_count, skipped_count>>
    /\ UNCHANGED watermarkVars

NextOrganise ==
    \/ OrganiseStart
    \/ SkipDirectory
    \/ SkipNoExtension
    \/ MakedirsFails
    \/ MoveFile
    \/ MoveFails
    \/ OrganiseEnd

SpecOrganise == InitOrganise /\ [][NextOrganise]_vars

----------------------------------------------------------------------------
(* Claims *)

BottomRightOf(g) == <<g.bw - g.ww - g.pad, g.bh - g.wh - g.pad>>

\* C1: calculate_position returns (padding, padding) for Top Left,
\* (base_w - wm_w - padding, padding) for Top Right, (padding, base_h - wm_h -
\* padding) for Bottom Left, (base_w - wm_w - padding, base_h - wm_h - padding)
\* for Bottom Right and for any other value, and the floored halves of the
\* differences for Center; nothing is clamped to the canvas, and base 100x100
\* with watermark 20x20 and padding 10 gives (10,10), (70,10), (10,70),
\* (70,70), (40,40).
C1_CalculatePosition ==
    geom.called =>
        /\ geom.pos = "Top Left" => geom.xy = <<geom.pad, geom.pad>>
        /\ geom.pos = "Top Right" => geom.xy = <<geom.bw - geom.ww - geom.pad, geom.pad>>
        /\ geom.pos = "Bottom Left" => geom.xy = <<geom.pad, geom.bh - geom.wh - geom.pad>>
        /\ geom.pos = "Bottom Right" => geom.xy = BottomRightOf(geom)
        /\ geom.pos = "Center" =>
              /\ 2 * geom.xy[1] \in {geom.bw - geom.ww, geom.bw - geom.ww - 1}
              /\ 2 * geom.xy[2] \in {geom.bh - geom.wh, geom.bh - geom.wh - 1}
        /\ geom.pos \notin {"Top Left", "Top Right", "Bottom Left", "Bottom Right", "Center"}
              => geom.xy = BottomRightOf(geom)
        /\ (geom.bw = 100 /\ geom.bh = 100 /\ geom.ww = 20 /\ geom.wh = 20 /\ geom.pad = 10)
              => geom.xy = CASE geom.pos = "Top Left" -> <<10, 10>>
                             [] geom.pos = "Top Right" -> <<70, 10>>
                             [] geom.pos = "Bottom Left" -> <<10, 70>>
                             [] geom.pos = "Center" -> <<40, 40>>
                             [] OTHER -> <<70, 70>>

\* C1 witness: the Top Right call of the example has returned (70, 10)
C1_Witness ==
    /\ geom.called /\ geom.pos = "Top Right"
    /\ geom.bw = 100 /\ geom.bh = 100 /\ geom.ww = 20 /\ geom.wh = 20 /\ geom.pad = 10
    /\ geom.xy = <<70, 10>>

ResizeDone == entry = "image" /\ watermark_image_orig # NoImage /\ pc # "i_resize"

\* C2: the target width is the base width times the scale factor, truncated,
\* below 1.0 and the source watermark's width times the scale factor above
\* 1.0; the target height is the target width times source height over source
\* width, truncated; at 1.0 the source is used as it is, without a resize.
C2_TargetSize ==
    ResizeDone =>
        LET n == scale_factor[1]
            d == scale_factor[2]
        IN /\ n < d => wm_width = (base_file.w * n) \div d
           /\ n > d => wm_width = (wm_file.w * n) \div d
           /\ n # d => wm_height = (wm_width * wm_file.h) \div wm_file.w
           /\ n # d /\ pc # "done" =>
                 /\ ~wm_is_orig
                 /\ watermark_image.w = wm_width /\ watermark_image.h = wm_height
           /\ n = d => /\ wm_width = wm_file.w /\ wm_height = wm_file.h
                       /\ wm_is_orig
                       /\ watermark_image.w = wm_file.w /\ watermark_image.h = wm_file.h

\* C2 witness: scale 2.0 has doubled a 2-wide watermark on a wider base
C2_Witness ==
    /\ ResizeDone /\ pc = "i_opacity"
    /\ scale_factor = <<2, 1>> /\ wm_file.w = 2 /\ base_file.w > 4
    /\ wm_width = 4 /\ watermark_image.w = 4

TileDone == entry = "image" /\ position_choice = "Tile" /\ pc \in {"i_save", "done"}
                /\ watermarked_image # NoImage

\* the destinations of the claim
TileGrid ==
    {<<k * (wm_width + 20), m * (wm_height + 20)>> :
        k \in {j \in 0..base_image.w : j * (wm_width + 20) < base_image.w},
        m \in {j \in 0..base_image.h : j * (wm_height + 20) < base_image.h}}

\* C3: in Tile mode the watermark is composited exactly once at every
\* (k*(wm_w + 20), m*(wm_h + 20)) with x < base_w and y < base_h and nowhere
\* else; a tile that reaches past the right or bottom edge is composited too.
C3_TileDestinations ==
    TileDone =>
        /\ {placements[i] : i \in 1..Len(placements)} = TileGrid
        /\ Len(placements) = Cardinality(TileGrid)

\* C3 witness: two columns and two rows of tiles, the right one cut by the edge
C3_Witness ==
    /\ TileDone
    /\ Len(placements) = 4
    /\ \E i \in 1..Len(placements) :
          /\ placements[i][1] > 0 /\ placements[i][2] > 0
          /\ boxes[i].xsize > 0 /\ boxes[i].xsize < wm_width

\* (x, y) lies under an image of size w x h placed at dest
Covers(dest, w, h, x, y) ==
    /\ x >= dest[1] /\ x < dest[1] + w
    /\ y >= dest[2] /\ y < dest[2] + h

\* the canvas positions, and those under a drawn watermark
CanvasIdx == 1..(base_image.w * base_image.h)
CoveredBy(j, i) ==
    Covers(placements[j], wm_width, wm_height, XOf(base_image, i), YOf(base_image, i))
Covered(i) == \E j \in 1..Len(placements) : CoveredBy(j, i)
SamePixel(p, q) == \A k \in 1..Len(p) : p[k] = q[k]
SameColour(p, q) == p[1] = q[1] /\ p[2] = q[2] /\ p[3] = q[3]

\* C4: whatever offset calculate_position or the tile loop produces, negative
\* or past the canvas, the region written lies inside [0, base_w) x [0, base_h),
\* the placing does not fail, and every base pixel that no watermark pixel
\* covers keeps its value.
C4_ClippingSafe ==
    /\ \A j \in 1..Len(boxes) :
          /\ boxes[j].xsize >= 0 /\ boxes[j].ysize >= 0
          /\ boxes[j].x0 >= 0 /\ boxes[j].x0 + boxes[j].xsize <= base_image.w
          /\ boxes[j].y0 >= 0 /\ boxes[j].y0 + boxes[j].ysize <= base_image.h
    /\ placements # <<>> =>
          /\ result # "raised"
          /\ Len(boxes) = Len(placements)
          /\ pc = "done" => watermarked_image # NoImage
    /\ watermarked_image # NoImage =>
          /\ watermarked_image.w = base_image.w /\ watermarked_image.h = base_image.h
          /\ \A i \in CanvasIdx :
                ~Covered(i) => SamePixel(watermarked_image.px[i], base_image.px[i])

\* C4 witness: a watermark placed at a negative offset that still covers a
\* part of the canvas has been composited
C4_Witness ==
    /\ watermarked_image # NoImage
    /\ \E j \in 1..Len(placements) :
          /\ placements[j][1] < 0
          /\ boxes[j].xsize > 0 /\ boxes[j].xsize < wm_width

\* C5: with opacity 0 every pixel of the result, on the text path and on the
\* image path, single or tiled, has the colour of the base pixel.
C5_OpacityZeroIdentity ==
    (opacity = Zero /\ watermarked_image # NoImage) =>
        /\ \A i \in CanvasIdx : SamePixel(watermarked_image.px[i], base_image.px[i])
        /\ output # NoImage =>
              \A i \in CanvasIdx : SameColour(output.px[i], base_image.px[i])

\* C5 witness: at opacity 0 an image watermark has been drawn over canvas pixels
C5_Witness ==
    /\ opacity = Zero /\ entry = "image" /\ pc = "i_save"
    /\ \E j \in 1..Len(boxes) : boxes[j].xsize > 0

\* the watermark as decoded and resized, before the opacity is applied
Resampled ==
    IF RatEq(scale_factor, One) THEN DecodeWm(wm_file)
    ELSE Resize(DecodeWm(wm_file), wm_width, wm_height)

\* C6: at opacity 1 with a fully opaque image watermark every result pixel
\* under the watermark is the resampled watermark pixel mapped onto it.
C6_OpaqueWatermarkReplaces ==
    (entry = "image" /\ opacity = One /\ wm_file.kind = "opaque"
        /\ watermarked_image # NoImage) =>
        \A i \in CanvasIdx : \A j \in 1..Len(placements) :
            CoveredBy(j, i) =>
                LET wp == PixelAt(Resampled, XOf(base_image, i) - placements[j][1],
                                             YOf(base_image, i) - placements[j][2])
                IN /\ wp[4] = 255
                   /\ SameColour(watermarked_image.px[i], wp)

\* C6 witness: an opaque watermark at opacity 1 has been composited on canvas pixels
C6_Witness ==
    /\ entry = "image" /\ opacity = One /\ wm_file.kind = "opaque" /\ pc = "i_save"
    /\ position_choice # "Tile"
    /\ boxes[1].xsize > 0

\* the sources in the order of the claim; a path that does not exist is not tried
SourceOrder(input) ==
    (IF input = UserFont THEN <<UserFont>> ELSE <<>>) \o DEFAULT_FONT_PATHS \o <<BuiltIn>>
RECURSIVE FirstLoadable(_, _)
FirstLoadable(sources, ok) ==
    IF sources = <<>> THEN NoFont
    ELSE IF Head(sources) \in ok THEN Head(sources)
    ELSE FirstLoadable(Tail(sources), ok)
\* the sources in the order of their first attempt
FirstAttempts(seq) ==
    SelectSeq([i \in 1..Len(seq) |-> IF \E k \in 1..(i - 1) : seq[k] = seq[i]
                                      THEN "" ELSE seq[i]],
              LAMBDA e : e # "")
IsPrefix(a, b) == Len(a) <= Len(b) /\ \A i \in 1..Len(a) : a[i] = b[i]
FontResolved == entry = "text" /\ tried # <<>>

\* C7: the sources are tried in the order explicit path, DEFAULT_FONT_PATHS in
\* list order, built-in font; the first that loads is the font used, nothing is
\* tried after it, and the failures before it are not propagated.  (find_font
\* tries "arial.ttf", a path of the list that has failed, once more before the
\* built-in font: the order is that of the first attempts.)
C7_FontOrder ==
    FontResolved =>
        /\ font = FirstLoadable(SourceOrder(font_input), fonts_ok)
        /\ IsPrefix(FirstAttempts(tried), SourceOrder(font_input))
        /\ \A i \in 1..(Len(tried) - 1) : tried[i] \notin fonts_ok
        /\ font # NoFont => tried[Len(tried)] = font
        /\ result # "raised"
        /\ (font # NoFont /\ result = "False") => watermarked_image # NoImage

\* C7 witness: the explicit path and the list have failed and the built-in
\* font is in use
C7_Witness ==
    /\ FontResolved /\ pc = "t_open"
    /\ font_input = UserFont /\ fonts_ok = {BuiltIn}
    /\ font = BuiltIn
    /\ tried[1] = UserFont /\ tried[Len(tried)] = BuiltIn

\* C8: when every source fails add_text_watermark returns False, without
\* raising, and neither opens the base image nor writes an output.
C8_NoFontFails ==
    (FontResolved /\ FirstLoadable(SourceOrder(font_input), fonts_ok) = NoFont) =>
        /\ pc = "done" /\ result = "False"
        /\ base_image = NoImage /\ layer = NoImage /\ placements = <<>>
        /\ watermarked_image = NoImage /\ output = NoImage

\* C8 witness: an existing font file that does not load, and nothing else loads
C8_Witness ==
    /\ FontResolved /\ font_input = UserFont /\ fonts_ok = {}
    /\ Len(tried) = 6
    /\ result = "False"

\* alpha is a * q up to the rounding of one step
AlphaIsScaled(alpha, a, q) ==
    /\ alpha * Den(q) - a * Num(q) < Den(q)
    /\ a * Num(q) - alpha * Den(q) < Den(q)

\* C9: opacity is applied once: the pixels composited on the base have alpha =
\* source alpha x opacity, on the text path (glyph coverage x opacity), on the
\* image path, and in Tile mode for every tile.
C9_OpacityOnce ==
    /\ (entry = "text" /\ placements # <<>>) =>
          \A i \in CanvasIdx :
              CoveredBy(1, i) =>
                  AlphaIsScaled(layer.px[i][4],
                                Coverage(XOf(base_image, i) - placements[1][1],
                                         YOf(base_image, i) - placements[1][2]),
                                opacity)
    /\ (entry = "image" /\ placements # <<>>) =>
          \A i \in CanvasIdx : \A j \in 1..Len(placements) :
              CoveredBy(j, i) =>
                  LET x == XOf(base_image, i) - placements[j][1]
                      y == YOf(base_image, i) - placements[j][2]
                      composited == IF position_choice = "Tile"
                                    THEN PixelAt(watermark_image, x, y)
                                    ELSE layer.px[i]
                  IN AlphaIsScaled(composited[4], PixelAt(Resampled, x, y)[4], opacity)

\* C9 on the paths other than the single placement of an image
C9_OpacityOnceTextAndTile ==
    (entry = "image" /\ position_choice # "Tile") \/ C9_OpacityOnce

\* C10: a call of add_text_watermark or add_image_watermark ends with True or
\* with False; no error leaves it.
C10_TwoOutcomes == pc = "done" => result \in {"True", "False"}

\* a zero or negative scale factor was entered at the prompt
NonPositiveEntered ==
    /\ entry = "image" /\ pc # "start"
    /\ ParseFloat(scale_factor_str).err = ""
    /\ RatLe(ParseFloat(scale_factor_str).val, Zero)

\* C11 as stated: a zero or negative scale factor is treated as 1.0, and the
\* watermark is used at its source dimensions without a resize.
C11_NonPositiveIsOne ==
    NonPositiveEntered =>
        /\ RatEq(scale_factor, One)
        /\ ResizeDone => /\ wm_is_orig
                         /\ wm_width = wm_file.w
                         /\ wm_height = wm_file.h

\* C11: a zero or negative scale factor is replaced by the default 0.2; the
\* watermark is then resized to a fifth of the base width, truncated, the
\* height following the source's aspect ratio, and is never the source itself.
C11_NonPositiveIsDefault ==
    NonPositiveEntered =>
        /\ scale_factor = <<1, 5>>
        /\ ResizeDone => /\ ~wm_is_orig
                         /\ wm_width = base_file.w \div 5
                         /\ wm_height = (wm_width * wm_file.h) \div wm_file.w

\* C11 witness: -1 was entered and the watermark was resized to a fifth of the
\* width of a base other than its own size
C11_Witness ==
    /\ NonPositiveEntered /\ scale_factor_str = "-1"
    /\ pc = "i_opacity"
    /\ base_file.w = TileSpacing + 3 /\ wm_width = 4 /\ wm_width # wm_file.w
    /\ watermark_image.w = 4

\* the decoded base image is the one that was decoded
BaseUnchanged == base_image # NoImage => base_image = DecodeBase(base_file)

\* the decoded source watermark is the one that was decoded
SourceUnchanged ==
    watermark_image_orig # NoImage => watermark_image_orig = DecodeWm(wm_file)

\* C12: during a call of add_image_watermark the decoded base image and the
\* decoded source watermark stay as they were decoded, through scaling,
\* opacity and compositing, for every scale factor (1.0 included) and every
\* opacity.
C12_SourcesUnchanged == entry = "image" => BaseUnchanged /\ SourceUnchanged

\* C12 where it holds: the base image always, the source watermark when a
\* resize made a new image of it or the opacity is 1.0
C12_UnchangedUnlessAliased ==
    entry = "image" =>
        /\ BaseUnchanged
        /\ (~wm_is_orig \/ RatEq(opacity, One)) => SourceUnchanged

\* lines 208-210 were run: a scale factor other than 1.0 and both images decoded
TargetComputed == ResizeDone /\ ~RatEq(scale_factor, One)

\* C13: for every scale factor that is positive and not 1.0, and every base
\* image and source watermark of at least 1 x 1, the target width and height
\* computed by add_image_watermark are both at least 1.
C13_TargetAtLeastOne ==
    (TargetComputed /\ base_file.w >= 1 /\ base_file.h >= 1
                    /\ wm_file.w >= 1 /\ wm_file.h >= 1) =>
        wm_width >= 1 /\ wm_height >= 1

\* C13, what holds instead: the targets are never negative; with a target of
\* 0 the resize raises and the call ends with False and no output; the
\* opacity step, the tile loop and the compositing only see a watermark of at
\* least 1 x 1.
C13_ZeroTargetFails ==
    TargetComputed =>
        /\ wm_width >= 0 /\ wm_height >= 0
        /\ (wm_width = 0 \/ wm_height = 0) =>
              /\ pc = "done" /\ result = "False"
              /\ watermark_image = NoImage /\ placements = <<>> /\ output = NoImage
        /\ watermark_image # NoImage =>
              /\ watermark_image.w = wm_width /\ watermark_image.h = wm_height
              /\ wm_width >= 1 /\ wm_height >= 1

\* the first category, in the order of FILE_CATEGORIES, that lists the
\* extension; Others when none does
ExpectedCategory(ext) ==
    LET listing == {i \in 1..Len(FILE_CATEGORIES) : ext \in FILE_CATEGORIES[i].extensions}
    IN IF listing = {} THEN "Others"
       ELSE FILE_CATEGORIES[CHOOSE i \in listing : \A j \in listing : i <= j].name

\* a step leaves every file of every category folder in place, under its name
\* and holding what it held
NothingOverwritten ==
    \A c \in CategoryNames : \A n \in FilesIn(folders[c]) :
        /\ n \in FilesIn(folders'[c])
        /\ folders'[c].files[n] = folders[c].files[n]

\* dest is item_name with the least N >= 1 whose name is not in the folder
FirstFreeNumbered(folder, item_name, dest) ==
    \E N \in 1..(Cardinality(FilesIn(folder)) + 1) :
        /\ dest = WithCounter(item_name, N)
        /\ \A k \in 1..(N - 1) : Exists(folder, WithCounter(item_name, k))

\* a file that leaves the directory in a step arrives in the folder of its
\* category, under a name that was not in that folder: its own, or on a
\* conflict the first free numbered one
MovedToFreeName ==
    \A item_name \in dir_files \ dir_files' :
        LET c == ExpectedCategory(Lower(item_name.ext))
        IN \E dest \in FilesIn(folders'[c]) \ FilesIn(folders[c]) :
              /\ folders'[c].files[dest] = Holds("", item_name)
              /\ IF Exists(folders[c], item_name)
                 THEN FirstFreeNumbered(folders[c], item_name, dest)
                 ELSE dest = item_name

\* a name that appears in a category folder in a step is that of a file moved
\* out of the directory in that step
OnlyMovesAdd ==
    \A c \in CategoryNames : \A n \in FilesIn(folders'[c]) \ FilesIn(folders[c]) :
        /\ folders'[c].files[n].origin = ""
        /\ folders'[c].files[n].name \in dir_files \ dir_files'

\* every file in a category folder is one that was there before the run, under
\* the same name, or a file of the directory whose extension, lower-cased, puts
\* it in that category
EachFileInPlace ==
    \A c \in CategoryNames : \A n \in FilesIn(folders[c]) :
        LET holds == folders[c].files[n]
        IN IF holds.origin = ""
           THEN /\ c = ExpectedCategory(Lower(holds.name.ext))
                /\ holds.name \notin dir_files
           ELSE holds = Holds(c, n)

\* C14: organise_files never overwrites or removes a file of a category
\* folder: each file it moves goes to a name that does not exist at the
\* moment of the move (on a conflict the first free base_N.ext, N = 1, 2, ...),
\* so every file that was in a category folder stays there under its name,
\* and each moved file lands in the folder of the first category of
\* FILE_CATEGORIES that lists its lower-cased extension, or in Others.
C14_NeverOverwrites ==
    /\ [][NothingOverwritten /\ MovedToFreeName /\ OnlyMovesAdd]_vars
    /\ [](entry = "organise" => EachFileInPlace)

\* C14 witness: the run is over; a.jpg met a.jpg and a_1.jpg in Images and
\* became a_2.jpg, both older files are as they were, and a.ppt, which
\* Documents and Presentations both list, is in Documents as a_1.ppt next to
\* the older a.ppt
C14_Witness ==
    /\ entry = "organise" /\ pc = "done"
    /\ FilesIn(folders["Images"]) = {FileName("a", <<>>, ".jpg"), FileName("a", <<1>>, ".jpg"),
                                     FileName("a", <<2>>, ".jpg")}
    /\ folders["Images"].files[FileName("a", <<2>>, ".jpg")] =
          Holds("", FileName("a", <<>>, ".jpg"))
    /\ folders["Images"].files[FileName("a", <<1>>, ".jpg")] =
          Holds("Images", FileName("a", <<1>>, ".jpg"))
    /\ FilesIn(folders["Documents"]) = {FileName("a", <<>>, ".ppt"), FileName("a", <<1>>, ".ppt")}
    /\ folders["Documents"].files[FileName("a", <<1>>, ".ppt")] =
          Holds("", FileName("a", <<>>, ".ppt"))
    /\ folders["Presentations"].kind = "absent"
    /\ dir_files = {}
    /\ organised_count = 2

====
